---- MODULE Spec2Model ----
(***************************************************************************)
(* State-machine model of the label detector:                              *)
(*   - ImageAnalysisService.fuzzySearch, analyzeTextDensity, detectors     *)
(*   - LabelDetectionService.calculateLabelScore  (scoring engine)         *)
(*   - LabelDetectionService.detectLabel          (per-image pipeline)     *)
(*   - LabelDetectionService.detectLabelsInBatch  (batch coordinator)      *)
(*   - TesseractService.getWorker / recognizeText (OCR worker pool)        *)
(*                                                                         *)
(* Numbers.  The score is a JavaScript double: every criterion adds a      *)
(* whole number of points except the coverage criterion, which adds        *)
(* min(20, (pct/100/0.4)*20) = min(20, pct/2).  The model takes the        *)
(* coverage percentage as an integer and holds every score in HALF points  *)
(* (Pts(n) is n points), so that pct/2 is exact; a confidence is held in   *)
(* units of 1/200 (score in half points / maxScore in half points).        *)
(* Rounding of IEEE doubles is not modelled.                               *)
(***************************************************************************)
EXTENDS Integers, Sequences, FiniteSets, TLC

VARIABLES
    workerPoolSize,  \* config.tesseract.workerPoolSize
    workerPool,      \* TesseractService.workerPool (set of live worker handles)
    isInitialized,   \* TesseractService.isInitialized
    images,          \* argument of detectLabelsInBatch: the _id of each image, in order
    pc,              \* position of every detectLabel invocation
    worker,          \* the worker getWorker handed to the invocation (0: none)
    outcome,         \* the promise detectLabel returned: pending, fulfilled, rejected
    batchPc,         \* position of the detectLabelsInBatch call
    chunks,          \* local `chunks` of detectLabelsInBatch (task numbers)
    chunkIdx,        \* which chunk the for-of loop is awaiting
    results,         \* local `results` Map of detectLabelsInBatch
    setCount,        \* number of results.set calls made per key
    thrown,          \* the `error` the catch block of detectLabel received
    scoreIn,         \* arguments of one calculateLabelScore call
    scoreOut,        \* its locals and return value
    fuzzyIn,         \* arguments of one fuzzySearch / similarity call
    fuzzyOut,        \* what the calls returned
    densityIn,       \* arguments of one analyzeTextDensity call
    densityOut,      \* what the analysis of that OCR result returned
    calls,           \* every call of initialize, recognizeText or terminate
    live,            \* the Tesseract workers created and not terminated
    terminating,     \* the workers whose terminate() is in progress
    created          \* how many workers createWorker has made so far

vars == <<workerPoolSize, workerPool, isInitialized, images, pc, worker, outcome,
          batchPc, chunks, chunkIdx, results, setCount, thrown, scoreIn, scoreOut,
          fuzzyIn, fuzzyOut, densityIn, densityOut,
          calls, live, terminating, created>>

\* the life of the worker pool beyond TesseractService's two fields
poolVars == <<calls, live, terminating, created>>

----------------------------------------------------------------------------
(* Bounds of the model *)

MaxImages == 3
MaxCallers == 3
MaxPool == 2

(* Program constants *)

maxScore == 100
LabelThreshold == 45

Min(a, b) == IF a < b THEN a ELSE b

\* n points, in the half-point unit every score of the model is held in
Pts(n) == n + n

None == [none |-> TRUE]

----------------------------------------------------------------------------
(* Scoring engine: LabelDetectionService.calculateLabelScore *)

\* Criterio 0: textLength = ocrResult.text.trim().length
TextVolumePointsInclusive(textLength) ==
    IF textLength > 100 THEN Pts(15)
    ELSE IF textLength >= 50 THEN Pts(8)
    ELSE 0

TextVolumePoints(textLength) ==
    IF textLength > 100 THEN Pts(15)
    ELSE IF textLength > 50 THEN Pts(8)
    ELSE 0

\* Criterio 1: textCoverageRatio = pct / 100; if ratio > 0.1 add
\* min(20, (ratio / 0.4) * 20), which is min(20, pct / 2): pct half points
CoveragePointsUncapped(pct) ==
    IF pct > 10 THEN pct ELSE 0

CoveragePoints(pct) ==
    IF pct > 10 THEN Min(Pts(20), pct) ELSE 0

\* Criterio 2
BlockPoints(textBlockCount) ==
    IF textBlockCount >= 5 THEN Pts(15)
    ELSE IF textBlockCount >= 3 THEN Pts(10)
    ELSE IF textBlockCount >= 2 THEN Pts(5)
    ELSE 0

\* Criterio 3
WordPointsDip(wordsDetected) ==
    IF wordsDetected >= 30 THEN Pts(15)
    ELSE IF wordsDetected >= 20 THEN Pts(6)
    ELSE IF wordsDetected >= 10 THEN Pts(8)
    ELSE IF wordsDetected >= 5 THEN Pts(4)
    ELSE 0

WordPoints(wordsDetected) ==
    IF wordsDetected >= 30 THEN Pts(15)
    ELSE IF wordsDetected >= 20 THEN Pts(12)
    ELSE IF wordsDetected >= 10 THEN Pts(8)
    ELSE IF wordsDetected >= 5 THEN Pts(4)
    ELSE 0

\* Criterios 4 to 8: the points each `score +=` adds
CriterionPointsPerCode(in) ==
    [volume       |-> TextVolumePoints(in.textLength),
     coverage     |-> CoveragePoints(in.textCoveragePercentage),
     blocks       |-> BlockPoints(in.textBlockCount),
     words        |-> WordPoints(in.wordsDetected),
     nutrition    |-> IF in.hasNutritionalInfo THEN Pts(20) ELSE 0,
     ingredients  |-> IF in.hasIngredients THEN Pts(10) ELSE 0,
     storage      |-> IF in.hasStorageInfo THEN Pts(5) ELSE 0,
     manufacturer |-> IF in.hasManufacturerInfo THEN Pts(5) ELSE 0,
     codes        |-> (IF in.hasQRCode THEN Pts(5) ELSE 0)
                      + (IF in.hasBarcode THEN Pts(5) ELSE 0)]

CriterionPoints(in) ==
    [volume       |-> TextVolumePoints(in.textLength),
     coverage     |-> CoveragePoints(in.textCoveragePercentage),
     blocks       |-> BlockPoints(in.textBlockCount),
     words        |-> WordPoints(in.wordsDetected),
     nutrition    |-> IF in.hasNutritionalInfo THEN Pts(20) ELSE 0,
     ingredients  |-> IF in.hasIngredients THEN Pts(10) ELSE 0,
     storage      |-> IF in.hasStorageInfo THEN Pts(5) ELSE 0,
     manufacturer |-> IF in.hasManufacturerInfo THEN Pts(5) ELSE 0,
     codes        |-> IF in.hasQRCode \/ in.hasBarcode THEN Pts(5) ELSE 0]

CriterionOrder ==
    <<"volume", "coverage", "blocks", "words", "nutrition", "ingredients",
      "storage", "manufacturer", "codes">>

RECURSIVE SumPoints(_, _)
SumPoints(points, n) ==
    IF n = 0 THEN 0 ELSE SumPoints(points, n - 1) + points[CriterionOrder[n]]

\* the final value of the local `score`
TotalScore(in) == SumPoints(CriterionPoints(in), Len(CriterionOrder))

\* const confidence = Math.min(score / maxScore, 1), in units of 1/200
Confidence(score) == Min(score, Pts(maxScore))

\* const isLabel = score >= 45
IsLabelStrict(score) == score > Pts(LabelThreshold)

IsLabel(score) == score >= Pts(LabelThreshold)

\* which `if` / `else if` bodies run: each body adds its points and pushes
\* its reason
CriterionFiredCoverageFrom0(in) ==
    [volume       |-> in.textLength > 50,
     coverage     |-> in.textCoveragePercentage >= 0,
     blocks       |-> in.textBlockCount >= 2,
     words        |-> in.wordsDetected >= 5,
     nutrition    |-> in.hasNutritionalInfo,
     ingredients  |-> in.hasIngredients,
     storage      |-> in.hasStorageInfo,
     manufacturer |-> in.hasManufacturerInfo,
     codes        |-> in.hasQRCode \/ in.hasBarcode]

CriterionFired(in) ==
    [volume       |-> in.textLength > 50,
     coverage     |-> in.textCoveragePercentage > 10,
     blocks       |-> in.textBlockCount >= 2,
     words        |-> in.wordsDetected >= 5,
     nutrition    |-> in.hasNutritionalInfo,
     ingredients  |-> in.hasIngredients,
     storage      |-> in.hasStorageInfo,
     manufacturer |-> in.hasManufacturerInfo,
     codes        |-> in.hasQRCode \/ in.hasBarcode]

\* the `reasons` array: one entry per criterion that fired, in source order
\* (an entry is held as the name of its criterion)
RECURSIVE Reasons(_, _)
Reasons(fired, n) ==
    IF n = 0 THEN <<>>
    ELSE Reasons(fired, n - 1) \o
         (IF fired[CriterionOrder[n]] THEN <<CriterionOrder[n]>> ELSE <<>>)

Separator == "; "

NoReasons == "No se detectaron caracteristicas de etiqueta"

\* reasons.join("; "): the entries with the separator between neighbours,
\* held as the sequence of its pieces
RECURSIVE Join(_)
Join(reasons) ==
    IF Len(reasons) <= 1 THEN reasons
    ELSE Join(SubSeq(reasons, 1, Len(reasons) - 1))
         \o <<Separator, reasons[Len(reasons)]>>

Reasoning(fired) ==
    LET reasons == Reasons(fired, Len(CriterionOrder))
    IN  IF Len(reasons) > 0 THEN Join(reasons)
        ELSE <<NoReasons>>

calculateLabelScore(in) ==
    LET points == CriterionPoints(in)
        score  == TotalScore(in)
    IN  [points |-> points,
         score  |-> score,
         result |-> [isLabel    |-> IsLabel(score),
                     confidence |-> Confidence(score),
                     reasoning  |-> Reasoning(CriterionFired(in))]]

----------------------------------------------------------------------------
(* Inputs of the scoring engine *)

TextLengths == {0, 1, 50, 51, 100, 101}

CoveragePcts == {0, 10, 11, 30, 40, 80, 120}

BlockCounts == {0, 1, 2, 3, 5}

WordCounts == {0, 4, 5, 9, 10, 19, 20, 29, 30}

\* What analyzeTextDensity and the detectors can hand to calculateLabelScore:
\* the all-zero branch is taken exactly when there are no words and the
\* trimmed text is empty, both other branches count at least one block and
\* one word, and no detector matches in an empty text.
ReachableScoreInput(in) ==
    /\ (in.wordsDetected = 0) <=> (in.textBlockCount = 0)
    /\ in.wordsDetected = 0 => in.textCoveragePercentage = 0 /\ in.textLength = 0
    /\ in.textLength = 0 =>
          ~(in.hasNutritionalInfo \/ in.hasIngredients \/ in.hasStorageInfo
            \/ in.hasManufacturerInfo \/ in.hasQRCode \/ in.hasBarcode)

ScoreInputs ==
    {in \in [textLength             : TextLengths,
             textCoveragePercentage : CoveragePcts,
             textBlockCount         : BlockCounts,
             wordsDetected          : WordCounts,
             hasNutritionalInfo     : BOOLEAN,
             hasIngredients         : BOOLEAN,
             hasStorageInfo         : BOOLEAN,
             hasManufacturerInfo    : BOOLEAN,
             hasQRCode              : BOOLEAN,
             hasBarcode             : BOOLEAN] : ReachableScoreInput(in)}

----------------------------------------------------------------------------
(* Strings.  A string is the sequence of its characters. *)

MaxTextLen == 3
MaxKeywordLen == 2

Chars == {"a", "b", "A", " "}

Strings(n) == UNION {[1 .. k -> Chars] : k \in 0 .. n}

Capitals ==
    <<"A", "B", "C", "D", "E", "F", "G", "H", "I", "J", "K", "L", "M",
      "N", "O", "P", "Q", "R", "S", "T", "U", "V", "W", "X", "Y", "Z">>

Smalls ==
    <<"a", "b", "c", "d", "e", "f", "g", "h", "i", "j", "k", "l", "m",
      "n", "o", "p", "q", "r", "s", "t", "u", "v", "w", "x", "y", "z">>

LowerCaseOf ==
    [c \in {Capitals[k] : k \in 1 .. Len(Capitals)} |->
        Smalls[CHOOSE k \in 1 .. Len(Capitals) : Capitals[k] = c]]

\* String.prototype.toLowerCase
toLowerCase(str) ==
    [i \in 1 .. Len(str) |->
        IF str[i] \in DOMAIN LowerCaseOf THEN LowerCaseOf[str[i]] ELSE str[i]]

\* the characters the regular expression class \s matches
Whitespace == {" ", "\n"}

IsWhitespace(c) == c \in Whitespace

\* String.prototype.includes
includes(str, searchString) ==
    \E i \in 1 .. (Len(str) + 1) :
        /\ i + Len(searchString) - 1 <= Len(str)
        /\ SubSeq(str, i, i + Len(searchString) - 1) = searchString

\* str.split(/\s+/): the pieces between the maximal runs of whitespace; a
\* run at the start or the end leaves an empty piece there, and a string
\* without whitespace (the empty one included) is its own single piece
RECURSIVE SplitWhitespace(_)
SplitWhitespace(str) ==
    IF \A i \in 1 .. Len(str) : ~IsWhitespace(str[i]) THEN <<str>>
    ELSE LET first == CHOOSE i \in 1 .. Len(str) :
                         /\ IsWhitespace(str[i])
                         /\ \A h \in 1 .. (i - 1) : ~IsWhitespace(str[h])
             last  == CHOOSE j \in first .. Len(str) :
                         /\ \A h \in first .. j : IsWhitespace(str[h])
                         /\ j < Len(str) => ~IsWhitespace(str[j + 1])
         IN  <<SubSeq(str, 1, first - 1)>>
             \o SplitWhitespace(SubSeq(str, last + 1, Len(str)))

----------------------------------------------------------------------------
(* Fuzzy matching: ImageAnalysisService.levenshteinDistance, similarity and
   fuzzySearch *)

Min3(a, b, c) == Min(Min(a, b), c)

\* the inner loop: fills matrix[i][1 .. len1] from left to right; `above` is
\* matrix[i - 1] and `row` the part of matrix[i] filled so far (matrix[i][j]
\* at position j + 1)
RECURSIVE FillRow(_, _, _, _)
FillRow(above, row, char2, str1) ==
    LET j == Len(row)
    IN  IF j > Len(str1) THEN row
        ELSE FillRow(above,
                 Append(row, IF char2 = str1[j]
                             THEN above[j]
                             ELSE Min3(above[j] + 1,      \* sustitucion
                                       row[j] + 1,        \* insercion
                                       above[j + 1] + 1)),  \* eliminacion
                 char2, str1)

\* the outer loop: `above` is matrix[i - 1]; matrix[i][0] = i
RECURSIVE FillMatrix(_, _, _, _)
FillMatrix(above, i, str1, str2) ==
    IF i > Len(str2) THEN above
    ELSE FillMatrix(FillRow(above, <<i>>, str2[i], str1), i + 1, str1, str2)

\* returns matrix[len2][len1]; matrix[0][j] = j
levenshteinDistance(str1, str2) ==
    FillMatrix([j \in 1 .. (Len(str1) + 1) |-> j - 1], 1, str1, str2)[Len(str1) + 1]

\* a similarity is the fraction num / den
similarityCaseSensitive(s1, s2) ==
    LET longer  == IF Len(s1) > Len(s2) THEN s1 ELSE s2
        shorter == IF Len(s1) > Len(s2) THEN s2 ELSE s1
    IN  IF Len(longer) = 0 THEN [num |-> 1, den |-> 1]
        ELSE [num |-> Len(longer) - levenshteinDistance(longer, shorter),
              den |-> Len(longer)]

similarity(s1, s2) ==
    LET longer  == IF Len(s1) > Len(s2) THEN s1 ELSE s2
        shorter == IF Len(s1) > Len(s2) THEN s2 ELSE s1
    IN  IF Len(longer) = 0 THEN [num |-> 1, den |-> 1]
        ELSE [num |-> Len(longer)
                      - levenshteinDistance(toLowerCase(longer),
                                            toLowerCase(shorter)),
              den |-> Len(longer)]

\* sim >= threshold, the threshold in hundredths
AtLeast(sim, threshold) == sim.num * 100 >= threshold * sim.den

\* Math.floor(n * 0.6)
FloorOfSixTenths(n) == (6 * n) \div 10

\* Math.ceil(n * 0.6)
CeilOfSixTenths(n) == (6 * n + 9) \div 10

fuzzySearchWithoutExactMatch(text, keyword, threshold) ==
    LET textLower    == toLowerCase(text)
        keywordLower == toLowerCase(keyword)
        words        == SplitWhitespace(textLower)
        keywordParts == SplitWhitespace(keywordLower)
        Matched(part) == Len(part) > 3 /\ includes(textLower, part)
        matchedParts == SelectSeq(keywordParts, Matched)
    IN  IF \E w \in 1 .. Len(words) :
              /\ Len(words[w]) >= Len(keywordLower) - 2
              /\ AtLeast(similarity(words[w], keywordLower), threshold)
        THEN TRUE
        ELSE Len(matchedParts) >= CeilOfSixTenths(Len(keywordParts))

fuzzySearch(text, keyword, threshold) ==
    LET textLower    == toLowerCase(text)
        keywordLower == toLowerCase(keyword)
        words        == SplitWhitespace(textLower)
        keywordParts == SplitWhitespace(keywordLower)
        Matched(part) == Len(part) > 3 /\ includes(textLower, part)
        matchedParts == SelectSeq(keywordParts, Matched)
    IN  \* 1. Busqueda exacta
        IF includes(textLower, keywordLower) THEN TRUE
        \* 2. Busqueda por palabras individuales
        ELSE IF \E w \in 1 .. Len(words) :
                   /\ Len(words[w]) >= Len(keywordLower) - 2
                   /\ AtLeast(similarity(words[w], keywordLower), threshold)
        THEN TRUE
        \* 3. Busqueda parcial
        ELSE Len(matchedParts) >= CeilOfSixTenths(Len(keywordParts))

(* Inputs of the fuzzy matching: every string up to the bounds, and longer
   ones whose parts are long enough for the partial search *)

LongStrings ==
    {<<"a", "a", "a", "a", " ", "b", "b", "b", "b">>,
     <<"b", "b", "b", "b", " ", "a", "a", "a", "a">>,
     <<"B", "b", "b", "b">>,
     <<"a", "a", "a", "b", " ", "b", "b">>,
     <<"a", "a", "b">>}

Texts == Strings(MaxTextLen) \cup LongStrings

Keywords == Strings(MaxKeywordLen) \cup LongStrings

Thresholds == {0, 50, 75, 100}

FuzzyInputs == [text : Texts, keyword : Keywords, threshold : Thresholds]

----------------------------------------------------------------------------
(* Text density: ImageAnalysisService.analyzeTextDensity.  Areas are in
   square pixels; the coverage is a whole percentage and the mean confidence
   a whole number for every input of the model (see OCRResults), so that
   the divisions are exact. *)

MaxWords == 2

gridSize == 5
avgCharWidth == 10
avgCharHeight == 15
BlockGridSide == 1000

Max(a, b) == IF a > b THEN a ELSE b

RECURSIVE SumSeq(_)
SumSeq(numbers) ==
    IF Len(numbers) = 0 THEN 0
    ELSE SumSeq(SubSeq(numbers, 1, Len(numbers) - 1)) + numbers[Len(numbers)]

\* String.prototype.trim
trim(str) ==
    LET solid == {i \in 1 .. Len(str) : ~IsWhitespace(str[i])}
    IN  IF solid = {} THEN <<>>
        ELSE SubSeq(str, CHOOSE i \in solid : \A h \in solid : i <= h,
                         CHOOSE j \in solid : \A h \in solid : j >= h)

\* str.split("\n"): the pieces between the line feeds
RECURSIVE SplitLines(_)
SplitLines(str) ==
    IF \A i \in 1 .. Len(str) : str[i] # "\n" THEN <<str>>
    ELSE LET first == CHOOSE i \in 1 .. Len(str) :
                         /\ str[i] = "\n"
                         /\ \A h \in 1 .. (i - 1) : str[h] # "\n"
         IN  <<SubSeq(str, 1, first - 1)>>
             \o SplitLines(SubSeq(str, first + 1, Len(str)))

\* Math.floor(point.x / cellWidth), cellWidth = imageWidth / gridSize
CellOf(coordinate, imageSide) == (coordinate * gridSize) \div imageSide

countTextBlocks(points, imageWidth, imageHeight) ==
    IF Len(points) = 0 THEN 0
    ELSE Cardinality({<<CellOf(points[i].x, imageWidth),
                        CellOf(points[i].y, imageHeight)>> :
                      i \in 1 .. Len(points)})

analyzeFromWords(ocrResult, imageArea) ==
    LET words == ocrResult.words
        wordArea(word) ==
            (word.bbox.x1 - word.bbox.x0) * (word.bbox.y1 - word.bbox.y0)
        totalTextArea == SumSeq([i \in 1 .. Len(words) |-> wordArea(words[i])])
        textBlocks ==
            [i \in 1 .. Len(words) |->
                [x |-> (words[i].bbox.x0 + words[i].bbox.x1) \div 2,
                 y |-> (words[i].bbox.y0 + words[i].bbox.y1) \div 2]]
    IN  [totalTextArea          |-> totalTextArea,
         imageArea              |-> imageArea,
         textCoveragePercentage |-> (totalTextArea * 100) \div imageArea,
         textBlockCount         |->
             countTextBlocks(textBlocks, BlockGridSide, BlockGridSide),
         averageWordConfidence  |->
             IF Len(words) > 0
             THEN SumSeq([i \in 1 .. Len(words) |-> words[i].confidence])
                     \div Len(words)
             ELSE 0,
         wordsDetected          |-> Len(words)]

analyzeFromPlainText(ocrResult, imageArea, imageWidth, imageHeight) ==
    LET text  == trim(ocrResult.text)
        NotEmpty(w) == Len(w) > 0
        words == SelectSeq(SplitWhitespace(text), NotEmpty)
        estimatedTextArea == Len(text) * avgCharWidth * avgCharHeight
        NotBlank(line) == Len(trim(line)) > 0
        lines == SelectSeq(SplitLines(text), NotBlank)
    IN  [totalTextArea          |-> estimatedTextArea,
         imageArea              |-> imageArea,
         textCoveragePercentage |->
             Min((estimatedTextArea * 100) \div imageArea, 100),
         textBlockCount         |-> Max(Len(lines) \div 2, 1),
         averageWordConfidence  |-> ocrResult.confidence,
         wordsDetected          |-> Len(words)]

analyzeTextDensityAlwaysAnalyzing(ocrResult, imageWidth, imageHeight) ==
    LET imageArea == imageWidth * imageHeight
    IN  IF Len(ocrResult.words) > 0
        THEN analyzeFromWords(ocrResult, imageArea)
        ELSE analyzeFromPlainText(ocrResult, imageArea, imageWidth, imageHeight)

analyzeTextDensity(ocrResult, imageWidth, imageHeight) ==
    LET imageArea == imageWidth * imageHeight
    IN  IF Len(ocrResult.words) > 0
        THEN analyzeFromWords(ocrResult, imageArea)
        ELSE IF Len(trim(ocrResult.text)) > 0
        THEN analyzeFromPlainText(ocrResult, imageArea, imageWidth, imageHeight)
        ELSE [totalTextArea          |-> 0,
              imageArea              |-> imageArea,
              textCoveragePercentage |-> 0,
              textBlockCount         |-> 0,
              averageWordConfidence  |-> 0,
              wordsDetected          |-> 0]

----------------------------------------------------------------------------
(* Signal detectors: ImageAnalysisService.detectBarcodeQR,
   hasNutritionalInfo, hasIngredients, hasStorageInfo, hasManufacturerInfo.
   An accented letter is the character written with an apostrophe ("o'"),
   the degree sign is "deg". *)

Digits == {"0", "1", "2", "3", "4", "5", "6", "7", "8", "9"}

\* the regular expression class \d
IsDigit(c) == c \in Digits

\* the regular expression class \w
IsWordChar(c) ==
    \/ c \in Digits \cup {"_"}
    \/ \E k \in 1 .. Len(Capitals) : c = Capitals[k] \/ c = Smalls[k]

\* the last position of the longest stretch of str from position i on whose
\* characters are all in the class (i - 1 when there is none)
RunEnd(str, i, class) ==
    CHOOSE e \in (i - 1) .. Max(Len(str), i - 1) :
        /\ \A h \in i .. e : str[h] \in class
        /\ e < Len(str) => str[e + 1] \notin class

\* `word` stands in str from position i on
StandsAt(str, i, word) ==
    /\ i + Len(word) - 1 <= Len(str)
    /\ SubSeq(str, i, i + Len(word) - 1) = word

qrPatterns ==
    <<<<"q", "r">>,
      <<"s", "c", "a", "n">>,
      <<"e", "s", "c", "a", "n", "e", "a">>,
      <<"c", "o'", "d", "i", "g", "o">>,
      <<"c", "o", "d", "i", "g", "o">>>>

barcodePatterns ==
    <<<<"b", "a", "r", "r", "a", "s">>,
      <<"e", "a", "n">>,
      <<"u", "p", "c">>,
      <<"c", "o'", "d", "i", "g", "o">>,
      <<"c", "o", "d", "i", "g", "o">>>>

\* Array.prototype.some and Array.prototype.filter(...).length over
\* fuzzySearch(text, keyword, threshold)
SomeMatches(text, keywords, threshold) ==
    \E k \in 1 .. Len(keywords) : fuzzySearch(text, keywords[k], threshold)

CountMatches(text, keywords, threshold) ==
    Cardinality({k \in 1 .. Len(keywords) :
                    fuzzySearch(text, keywords[k], threshold)})

\* text.match(/\d{8,}/g) is not null
HasLongNumberSequence(text) ==
    \E i \in 1 .. Len(text) :
        /\ i + 7 <= Len(text)
        /\ \A h \in i .. (i + 7) : IsDigit(text[h])

\* confidence in tenths
detectBarcodeQRDigitsAsKeyword(ocrResult) ==
    LET text == ocrResult.text
        hasQRKeywords      == SomeMatches(text, qrPatterns, 70)
        hasBarcodeKeywords == SomeMatches(text, barcodePatterns, 70)
        longNumberSequences == HasLongNumberSequence(text)
    IN  [hasQRCode  |-> hasQRKeywords,
         hasBarcode |-> hasBarcodeKeywords \/ longNumberSequences,
         confidence |-> IF hasQRKeywords \/ hasBarcodeKeywords
                           \/ longNumberSequences THEN 8
                        ELSE 3]

detectBarcodeQR(ocrResult) ==
    LET text == ocrResult.text
        hasQRKeywords      == SomeMatches(text, qrPatterns, 70)
        hasBarcodeKeywords == SomeMatches(text, barcodePatterns, 70)
        longNumberSequences == HasLongNumberSequence(text)
    IN  [hasQRCode  |-> hasQRKeywords,
         hasBarcode |-> hasBarcodeKeywords \/ longNumberSequences,
         confidence |-> IF hasQRKeywords \/ hasBarcodeKeywords THEN 8
                        ELSE IF longNumberSequences THEN 6
                        ELSE 3]

nutritionalKeywords ==
    <<<<"i", "n", "f", "o", "r", "m", "a", "c", "i", "o", "n", " ", "n",
        "u", "t", "r", "i", "c", "i", "o", "n", "a", "l">>,
      <<"i", "n", "f", "o", "r", "m", "a", "c", "i", "o'", "n", " ", "n",
        "u", "t", "r", "i", "c", "i", "o", "n", "a", "l">>,
      <<"n", "u", "t", "r", "i", "c", "i", "o", "n", "a", "l">>,
      <<"c", "a", "l", "o", "r", "i", "a", "s">>,
      <<"c", "a", "l", "o", "r", "i'", "a", "s">>,
      <<"p", "r", "o", "t", "e", "i", "n", "a">>,
      <<"p", "r", "o", "t", "e", "i'", "n", "a">>,
      <<"g", "r", "a", "s", "a">>,
      <<"c", "a", "r", "b", "o", "h", "i", "d", "r", "a", "t", "o">>,
      <<"k", "c", "a", "l">>,
      <<"n", "u", "t", "r", "i", "c", "i", "o", "n">>>>

shortNutritionalWords ==
    <<<<"c", "a", "l">>,
      <<"k", "c", "a", "l">>,
      <<"g", "r", "a", "s", "a">>,
      <<"p", "r", "o", "t">>,
      <<"c", "a", "r", "b">>,
      <<"f", "i", "b", "r">>>>

\* /\|\s*\d+/ matches somewhere in text
hasTablePattern(text) ==
    \E i \in 1 .. Len(text) :
        /\ text[i] = "|"
        /\ LET e == RunEnd(text, i + 1, Whitespace)
           IN  e < Len(text) /\ IsDigit(text[e + 1])

\* (text.match(/\|/g) || []).length
CountPipes(text) == Cardinality({i \in 1 .. Len(text) : text[i] = "|"})

unitNames ==
    <<<<"g">>, <<"m", "g">>, <<"k", "c", "a", "l">>, <<"c", "a", "l">>,
      <<"g", "r">>>>

\* where a match of /\d+[\.,]?\d*\s*(g|mg|kcal|cal|gr)\b/i that begins at
\* position i ends (0 when none begins there): digits, at most one point or
\* comma with the digits after it, whitespace, the first unit name of the
\* alternation that is followed by a word boundary
UnitMatchEnd(text, i) ==
    IF i > Len(text) \/ ~IsDigit(text[i]) THEN 0
    ELSE LET lower    == toLowerCase(text)
             whole    == RunEnd(text, i, Digits)
             fraction == IF whole < Len(text) /\ text[whole + 1] \in {".", ","}
                         THEN RunEnd(text, whole + 2, Digits)
                         ELSE whole
             unitAt   == RunEnd(text, fraction + 1, Whitespace) + 1
             Fits(u)  == /\ StandsAt(lower, unitAt, unitNames[u])
                         /\ LET next == unitAt + Len(unitNames[u])
                            IN  next <= Len(text) => ~IsWordChar(text[next])
             fitting  == {u \in 1 .. Len(unitNames) : Fits(u)}
         IN  IF fitting = {} THEN 0
             ELSE LET u == CHOOSE v \in fitting : \A x \in fitting : v <= x
                  IN  unitAt + Len(unitNames[u]) - 1

\* text.match(/.../gi).length: the matches found from left to right, each
\* search resuming after the previous match
RECURSIVE CountUnitMatches(_, _)
CountUnitMatches(text, i) ==
    IF i > Len(text) THEN 0
    ELSE LET e == UnitMatchEnd(text, i)
         IN  IF e > 0 THEN 1 + CountUnitMatches(text, e + 1)
             ELSE CountUnitMatches(text, i + 1)

\* /por\s+(cada|100|cad)/i matches somewhere in text
hasPortionInfo(text) ==
    LET lower == toLowerCase(text)
    IN  \E i \in 1 .. Len(lower) :
            /\ StandsAt(lower, i, <<"p", "o", "r">>)
            /\ LET e == RunEnd(lower, i + 3, Whitespace)
               IN  /\ e >= i + 3
                   /\ \/ StandsAt(lower, e + 1, <<"c", "a", "d", "a">>)
                      \/ StandsAt(lower, e + 1, <<"1", "0", "0">>)
                      \/ StandsAt(lower, e + 1, <<"c", "a", "d">>)

\* how many of /nutri/i, /calor/i, /prote/i, /carbo/i, /informa.*nutri/i
\* match somewhere in text (the dot matches anything but a line feed)
partialMatchCount(text) ==
    LET lower == toLowerCase(text)
        nutri   == <<"n", "u", "t", "r", "i">>
        informa == <<"i", "n", "f", "o", "r", "m", "a">>
        informaNutri ==
            \E i, j \in 1 .. Len(lower) :
                /\ StandsAt(lower, i, informa)
                /\ j >= i + Len(informa)
                /\ StandsAt(lower, j, nutri)
                /\ \A h \in (i + Len(informa)) .. (j - 1) : lower[h] # "\n"
    IN  (IF includes(lower, nutri) THEN 1 ELSE 0)
        + (IF includes(lower, <<"c", "a", "l", "o", "r">>) THEN 1 ELSE 0)
        + (IF includes(lower, <<"p", "r", "o", "t", "e">>) THEN 1 ELSE 0)
        + (IF includes(lower, <<"c", "a", "r", "b", "o">>) THEN 1 ELSE 0)
        + (IF informaNutri THEN 1 ELSE 0)

hasNutritionalInfo(ocrResult) ==
    LET text      == ocrResult.text
        textLower == toLowerCase(text)
        matchedKeywords  == CountMatches(text, nutritionalKeywords, 70)
        hasMultiplePipes == CountPipes(text) >= 3
        nutritionalUnits == CountUnitMatches(text, 1)
        hasMultipleUnits == nutritionalUnits >= 3
        shortMatches ==
            Cardinality({k \in 1 .. Len(shortNutritionalWords) :
                            includes(textLower, shortNutritionalWords[k])})
    IN  \/ matchedKeywords >= 1
        \/ (hasTablePattern(text) /\ hasMultiplePipes)
        \/ hasMultipleUnits
        \/ shortMatches >= 2
        \/ (hasPortionInfo(text) /\ nutritionalUnits >= 2)
        \/ partialMatchCount(text) >= 2

ingredientKeywords ==
    <<<<"i", "n", "g", "r", "e", "d", "i", "e", "n", "t", "e">>,
      <<"i", "n", "g", "r", "e", "d", "i", "e", "n", "t", "e", "s">>,
      <<"c", "o", "n", "t", "i", "e", "n", "e">>,
      <<"l", "e", "c", "h", "e">>,
      <<"a", "z", "u", "c", "a", "r">>,
      <<"a", "z", "u'", "c", "a", "r">>,
      <<"a", "g", "u", "a">>,
      <<"n", "a", "t", "u", "r", "a", "l">>,
      <<"c", "u", "l", "t", "i", "v", "o">>,
      <<"p", "r", "o", "b", "i", "o", "t", "i", "c", "o">>,
      <<"p", "r", "o", "b", "i", "o'", "t", "i", "c", "o">>>>

hasIngredients(ocrResult) ==
    CountMatches(ocrResult.text, ingredientKeywords, 75) >= 2

storageKeywords ==
    <<<<"t", "e", "m", "p", "e", "r", "a", "t", "u", "r", "a">>,
      <<"a", "l", "m", "a", "c", "e", "n", "a">>,
      <<"r", "e", "f", "r", "i", "g", "e", "r", "a">>,
      <<"c", "o", "n", "s", "e", "r", "v", "a">>,
      <<"g", "r", "a", "d", "o", "s">>,
      <<"deg", "c">>,
      <<"a", "l", "m", "a", "c", "e", "n", "a", "j", "e">>>>

hasStorageInfo(ocrResult) ==
    SomeMatches(ocrResult.text, storageKeywords, 75)

manufacturerKeywords ==
    <<<<"p", "r", "o", "d", "u", "c", "t", "o">>,
      <<"f", "a", "b", "r", "i", "c", "a", "d", "o">>,
      <<"e", "l", "a", "b", "o", "r", "a", "d", "o">>,
      <<"d", "i", "s", "t", "r", "i", "b", "u", "i", "d", "o">>,
      <<"c", "o", "m", "e", "r", "c", "i", "a", "l", "i", "z", "a", "d",
        "o">>,
      <<"i", "n", "d", "u", "s", "t", "r", "i", "a">>,
      <<"e", "m", "p", "r", "e", "s", "a">>,
      <<"h", "e", "c", "h", "o", " ", "e", "n">>>>

hasManufacturerInfo(ocrResult) ==
    SomeMatches(ocrResult.text, manufacturerKeywords, 75)

----------------------------------------------------------------------------
(* Steps 6 to 9 of detectLabel: what the analysis makes of an OCR result *)

ScoreArguments(textDensity, barcodeQR, nutritional, ocrResult) ==
    [textLength             |-> Len(trim(ocrResult.text)),
     textCoveragePercentage |-> textDensity.textCoveragePercentage,
     textBlockCount         |-> textDensity.textBlockCount,
     wordsDetected          |-> textDensity.wordsDetected,
     hasNutritionalInfo     |-> nutritional,
     hasIngredients         |-> hasIngredients(ocrResult),
     hasStorageInfo         |-> hasStorageInfo(ocrResult),
     hasManufacturerInfo    |-> hasManufacturerInfo(ocrResult),
     hasQRCode              |-> barcodeQR.hasQRCode,
     hasBarcode             |-> barcodeQR.hasBarcode]

AnalyzeOCRResult(ocrResult, width, height) ==
    LET textDensity == analyzeTextDensity(ocrResult, width, height)
        barcodeQR   == detectBarcodeQR(ocrResult)
        nutritional == hasNutritionalInfo(ocrResult)
        arguments   == ScoreArguments(textDensity, barcodeQR, nutritional,
                                      ocrResult)
        scored      == calculateLabelScore(arguments)
    IN  [textDensity     |-> textDensity,
         barcodeQR       |-> barcodeQR,
         signals         |-> arguments,
         score           |-> scored.score,
         detectionResult |-> scored.result]

(* Inputs of the analysis.  Box corners are multiples of 10 pixels and the
   image areas divide 5000, so that every coverage is a whole percentage;
   the word confidences are 0 and 60, so that every mean is whole. *)

DensityChars == {"q", " ", "\n"}

LabelTexts ==
    {<<"Q", "R">>,
     <<"l", "e", "c", "h", "e", "\n", "a", "g", "u", "a">>,
     <<"1", "2", "3", "4", "5", "6", "7", "8">>,
     <<"U", "P", "C", " ", "1", "2", "3", "4", "5", "6", "7", "8", "9">>,
     <<"5", "g", " ", "3", ",", "5", " ", "m", "g", " ", "2", "k", "c", "a", "l">>}

OCRTexts == UNION {[1 .. k -> DensityChars] : k \in 0 .. MaxTextLen} \cup LabelTexts

OCRWords ==
    {[confidence |-> 60, bbox |-> [x0 |-> 0, y0 |-> 0, x1 |-> 10, y1 |-> 10]],
     [confidence |-> 0, bbox |-> [x0 |-> 10, y0 |-> 20, x1 |-> 40, y1 |-> 30]],
     [confidence |-> 60,
      bbox |-> [x0 |-> 400, y0 |-> 0, x1 |-> 420, y1 |-> 10]]}

OCRConfidences == {0, 60}

\* a page of 26 words, one per cell of a lattice six cells wide, as
\* recognized on an image preprocessed to more than 1000 pixels of width
CrowdedPage ==
    [i \in 1 .. 26 |->
        [confidence |-> 60,
         bbox |-> [x0 |-> 200 * ((i - 1) % 6),
                   y0 |-> 200 * ((i - 1) \div 6),
                   x1 |-> 200 * ((i - 1) % 6) + 10,
                   y1 |-> 200 * ((i - 1) \div 6) + 10]]]

OCRResults ==
    [text       : OCRTexts,
     confidence : OCRConfidences,
     words      : UNION {[1 .. k -> OCRWords] : k \in 0 .. MaxWords}
                  \cup {CrowdedPage}]

ImageWidths == {10, 50}

ImageHeights == {10, 100}

DensityInputs ==
    [ocrResult : OCRResults, width : ImageWidths, height : ImageHeights]

----------------------------------------------------------------------------
(* Per-image pipeline: LabelDetectionService.detectLabel *)

\* a task is one detectLabel invocation: under Spec task i is the call
\* detectLabelsInBatch makes for images[i], under SpecSingle it is the call of
\* one POST /api/detect-label request
TaskIds == 1 .. MaxImages

Workers == 1 .. MaxPool

NoError == "none"

\* what the collaborators hand back to one successful pipeline run: the
\* arguments calculateLabelScore is called with, the averageWordConfidence of
\* analyzeTextDensity and Date.now() - startTime
PipelineRuns ==
    {[in |-> [textLength |-> 118, textCoveragePercentage |-> 30,
              textBlockCount |-> 6, wordsDetected |-> 20,
              hasNutritionalInfo |-> TRUE, hasIngredients |-> TRUE,
              hasStorageInfo |-> FALSE, hasManufacturerInfo |-> FALSE,
              hasQRCode |-> FALSE, hasBarcode |-> FALSE],
      averageWordConfidence |-> 90, elapsed |-> 2],
     [in |-> [textLength |-> 0, textCoveragePercentage |-> 0,
              textBlockCount |-> 0, wordsDetected |-> 0,
              hasNutritionalInfo |-> FALSE, hasIngredients |-> FALSE,
              hasStorageInfo |-> FALSE, hasManufacturerInfo |-> FALSE,
              hasQRCode |-> FALSE, hasBarcode |-> FALSE],
      averageWordConfidence |-> 0, elapsed |-> 1]}

\* the LabelDetectionResult detectLabel builds from a run
DetectionResult(run) ==
    LET detectionResult == calculateLabelScore(run.in).result
    IN  [isProductLabel   |-> detectionResult.isLabel,
         confidence       |-> detectionResult.confidence,
         reasoning        |-> detectionResult.reasoning,
         metrics          |-> [textCoverage          |-> run.in.textCoveragePercentage,
                               textBlockCount        |-> run.in.textBlockCount,
                               wordCount             |-> run.in.wordsDetected,
                               hasBarcode            |-> run.in.hasBarcode,
                               hasQRCode             |-> run.in.hasQRCode,
                               averageTextConfidence |-> run.averageWordConfidence],
         processingTimeMs |-> run.elapsed]

Pending == [status |-> "pending", value |-> None, reason |-> NoError]

Fulfilled(v) == [status |-> "fulfilled", value |-> v, reason |-> NoError]

Rejected(e) == [status |-> "rejected", value |-> None, reason |-> e]

\* the entry detectLabelsInBatch stores for a rejected detectLabel
ErrorResult(reason) ==
    [isProductLabel   |-> FALSE,
     confidence       |-> 0,
     reasoning        |-> <<"Error: ", reason>>,
     metrics          |-> [textCoverage |-> 0, textBlockCount |-> 0, wordCount |-> 0,
                           hasBarcode |-> FALSE, hasQRCode |-> FALSE,
                           averageTextConfidence |-> 0],
     processingTimeMs |-> 0]

\* catch (error) { Logger.error(...); throw error; }
DetectLabelCatchSwallows(error) == Fulfilled(ErrorResult(error))

DetectLabelCatch(error) == Rejected(error)

Settled(t) == outcome[t].status # "pending"

\* the synchronous event loop is blocked for good once chunkArray spins
Running == batchPc # "hung"

\* detectLabel(image) up to its first await (downloadImage)
StartTasks(ts) ==
    /\ pc' = [t \in TaskIds |-> IF t \in ts THEN "download" ELSE pc[t]]
    /\ outcome' = [t \in TaskIds |-> IF t \in ts THEN Pending ELSE outcome[t]]
    /\ thrown' = [t \in TaskIds |-> IF t \in ts THEN NoError ELSE thrown[t]]
    /\ worker' = [t \in TaskIds |-> IF t \in ts THEN 0 ELSE worker[t]]

\* a step of the try block throws `error`: the catch block runs
Throws(t, error) ==
    /\ pc' = [pc EXCEPT ![t] = "caught"]
    /\ thrown' = [thrown EXCEPT ![t] = error]
    /\ outcome' = [outcome EXCEPT ![t] = DetectLabelCatch(error)]
    /\ worker' = [worker EXCEPT ![t] = 0]

Advance(t, to) ==
    /\ pc' = [pc EXCEPT ![t] = to]
    /\ UNCHANGED <<thrown, outcome, worker>>

\* POST /api/detect-label: await LabelDetectionService.detectLabel(image)
SingleRequest(t) ==
    /\ Running
    /\ pc[t] = "notStarted"
    /\ StartTasks({t})
    /\ UNCHANGED <<poolVars, workerPoolSize, workerPool, isInitialized, images, batchPc,
                   chunks, chunkIdx, results, setCount, scoreIn, scoreOut, fuzzyIn, fuzzyOut,
                   densityIn, densityOut>>

\* await ImageProcessor.downloadImage(imageUrl)
DownloadDone(t) ==
    /\ Running
    /\ pc[t] = "download"
    /\ \/ Advance(t, "dimensions")
       \/ Throws(t, "download")
    /\ UNCHANGED <<poolVars, workerPoolSize, workerPool, isInitialized, images, batchPc,
                   chunks, chunkIdx, results, setCount, scoreIn, scoreOut, fuzzyIn, fuzzyOut,
                   densityIn, densityOut>>

\* await ImageProcessor.getImageDimensions(imageBuffer)
DimensionsDone(t) ==
    /\ Running
    /\ pc[t] = "dimensions"
    /\ \/ Advance(t, "preprocess")
       \/ Throws(t, "dimensions")
    /\ UNCHANGED <<poolVars, workerPoolSize, workerPool, isInitialized, images, batchPc,
                   chunks, chunkIdx, results, setCount, scoreIn, scoreOut, fuzzyIn, fuzzyOut,
                   densityIn, densityOut>>

\* TesseractService.getWorker: a uniformly random element of the whole pool
GetWorkerIdleOnly == {w \in workerPool : \A t \in TaskIds : worker[t] # w}

GetWorkerChoices == workerPool

\* await ImageProcessor.preprocessForOCR(imageBuffer), then the debug-image
\* write, then recognizeText up to worker.recognize: getWorker picks a worker
\* or throws when the pool holds none
PreprocessDone(t, w) ==
    /\ Running
    /\ pc[t] = "preprocess"
    /\ isInitialized
    /\ w \in GetWorkerChoices
    /\ pc' = [pc EXCEPT ![t] = "recognize"]
    /\ worker' = [worker EXCEPT ![t] = w]
    /\ UNCHANGED <<thrown, outcome>>
    /\ UNCHANGED <<poolVars, workerPoolSize, workerPool, isInitialized, images, batchPc,
                   chunks, chunkIdx, results, setCount, scoreIn, scoreOut, fuzzyIn, fuzzyOut,
                   densityIn, densityOut>>

PreprocessFails(t) ==
    /\ Running
    /\ pc[t] = "preprocess"
    /\ \/ Throws(t, "preprocess")
       \/ Throws(t, "debugWrite")
       \/ /\ isInitialized
          /\ GetWorkerChoices = {}
          /\ Throws(t, "No hay workers disponibles en el pool")
    /\ UNCHANGED <<poolVars, workerPoolSize, workerPool, isInitialized, images, batchPc,
                   chunks, chunkIdx, results, setCount, scoreIn, scoreOut, fuzzyIn, fuzzyOut,
                   densityIn, densityOut>>

\* await worker.recognize(imageBuffer), then analysis, scoring and return
RecognizeDone(t) ==
    /\ Running
    /\ pc[t] = "recognize"
    /\ \/ \E run \in PipelineRuns :
            /\ pc' = [pc EXCEPT ![t] = "returned"]
            /\ outcome' = [outcome EXCEPT ![t] = Fulfilled(DetectionResult(run))]
            /\ worker' = [worker EXCEPT ![t] = 0]
            /\ UNCHANGED thrown
       \/ Throws(t, "recognize")
       \/ Throws(t, "analysis")
    /\ UNCHANGED <<poolVars, workerPoolSize, workerPool, isInitialized, images, batchPc,
                   chunks, chunkIdx, results, setCount, scoreIn, scoreOut, fuzzyIn, fuzzyOut,
                   densityIn, densityOut>>

----------------------------------------------------------------------------
(* Batch coordinator: LabelDetectionService.detectLabelsInBatch *)

Ids == 1 .. MaxImages

\* image lists up to a renaming of the ids: the first image has id 1 and
\* every image has an id seen before or the next unused one
ImageLists ==
    UNION {{s \in [1 .. n -> Ids] :
              \A i \in 1 .. n :
                 \/ s[i] = 1
                 \/ \E j \in 1 .. (i - 1) : s[j] = s[i] \/ s[j] + 1 = s[i]} :
           n \in 0 .. MaxImages}

Range(s) == {s[i] : i \in 1 .. Len(s)}

\* for (let i = 0; i < array.length; i += chunkSize)
\*     chunks.push(array.slice(i, i + chunkSize))
RECURSIVE ChunkFrom(_, _, _, _)
ChunkFrom(array, i, chunkSize, sliceLen) ==
    IF i >= Len(array) THEN <<>>
    ELSE <<SubSeq(array, i + 1, Min(i + sliceLen, Len(array)))>>
         \o ChunkFrom(array, i + chunkSize, chunkSize, sliceLen)

chunkArrayOverlapping(array, chunkSize) == ChunkFrom(array, 0, chunkSize, chunkSize + 1)

chunkArray(array, chunkSize) == ChunkFrom(array, 0, chunkSize, chunkSize)

\* the loop of chunkArray ends iff there is nothing to chunk or i grows
chunkArrayReturns(array, chunkSize) == Len(array) = 0 \/ chunkSize > 0

\* await Promise.allSettled(chunk.map((image) => this.detectLabel(image))):
\* settles once every promise has, and never rejects
PromiseAll(chunk) ==
    [ready  |-> \/ \A i \in 1 .. Len(chunk) : outcome[chunk[i]].status = "fulfilled"
                \/ \E i \in 1 .. Len(chunk) : outcome[chunk[i]].status = "rejected",
     status |-> IF \E i \in 1 .. Len(chunk) : outcome[chunk[i]].status = "rejected"
                THEN "rejected" ELSE "fulfilled",
     value  |-> [i \in 1 .. Len(chunk) |-> outcome[chunk[i]]]]

PromiseAnySettled(chunk) ==
    [ready  |-> \E i \in 1 .. Len(chunk) : Settled(chunk[i]),
     status |-> "fulfilled",
     value  |-> [i \in 1 .. Len(chunk) |-> outcome[chunk[i]]]]

PromiseAllSettled(chunk) ==
    [ready  |-> \A i \in 1 .. Len(chunk) : Settled(chunk[i]),
     status |-> "fulfilled",
     value  |-> [i \in 1 .. Len(chunk) |-> outcome[chunk[i]]]]

\* the value results.set stores for one settled result
BatchEntryValueOnly(result) == result.value

BatchEntry(result) ==
    IF result.status = "fulfilled" THEN result.value
    ELSE ErrorResult(result.reason)

\* chunkResults.forEach((result, index) => ... results.set(imageId, ...));
\* every element of a chunk is an image object, so `if (!image) return` is
\* never taken
RECURSIVE StoreResults(_, _, _, _)
StoreResults(acc, chunk, chunkResults, n) ==
    IF n = 0 THEN acc
    ELSE LET prev    == StoreResults(acc, chunk, chunkResults, n - 1)
             imageId == images[chunk[n]]
         IN  [results  |-> [prev.results EXCEPT ![imageId] = BatchEntry(chunkResults[n])],
              setCount |-> [prev.setCount EXCEPT ![imageId] = @ + 1]]

\* the call, up to the first await of the loop (or the return, when there
\* is no chunk): chunkArray, then chunk.map(detectLabel) of the first chunk
BatchStart ==
    /\ batchPc = "idle"
    /\ LET concurrencyLimit == workerPoolSize
           tasks == [i \in 1 .. Len(images) |-> i]
       IN  IF ~chunkArrayReturns(tasks, concurrencyLimit)
           THEN /\ batchPc' = "hung"
                /\ UNCHANGED <<chunks, chunkIdx, pc, outcome, thrown, worker>>
           ELSE /\ chunks' = chunkArray(tasks, concurrencyLimit)
                /\ IF chunks' = <<>>
                   THEN /\ batchPc' = "done"
                        /\ UNCHANGED <<chunkIdx, pc, outcome, thrown, worker>>
                   ELSE /\ batchPc' = "awaitChunk"
                        /\ chunkIdx' = 1
                        /\ StartTasks(Range(chunks'[1]))
    /\ UNCHANGED <<poolVars, workerPoolSize, workerPool, isInitialized, images, results,
                   setCount, scoreIn, scoreOut, fuzzyIn, fuzzyOut,
                   densityIn, densityOut>>

\* the continuation of the await: forEach over the settled results, then the
\* next iteration of the loop (chunk.map of the next chunk) or the return
ChunkSettled ==
    /\ batchPc = "awaitChunk"
    /\ LET chunk == chunks[chunkIdx]
           chunkResults == PromiseAllSettled(chunk)
       IN  /\ chunkResults.ready
           /\ IF chunkResults.status = "rejected"
              THEN /\ batchPc' = "rejected"
                   /\ UNCHANGED <<chunkIdx, results, setCount, pc, outcome,
                                  thrown, worker>>
              ELSE LET stored == StoreResults([results |-> results, setCount |-> setCount],
                                              chunk, chunkResults.value, Len(chunk))
                   IN  /\ results' = stored.results
                       /\ setCount' = stored.setCount
                       /\ IF chunkIdx < Len(chunks)
                          THEN /\ chunkIdx' = chunkIdx + 1
                               /\ batchPc' = "awaitChunk"
                               /\ StartTasks(Range(chunks[chunkIdx + 1]))
                          ELSE /\ batchPc' = "done"
                               /\ UNCHANGED <<chunkIdx, pc, outcome, thrown, worker>>
    /\ UNCHANGED <<poolVars, workerPoolSize, workerPool, isInitialized, images, chunks,
                   scoreIn, scoreOut, fuzzyIn, fuzzyOut,
                   densityIn, densityOut>>

----------------------------------------------------------------------------
(* The server after startServer (the pool is initialized) serving one
   POST /api/detect-labels-batch request *)

\* callers of TesseractService's own methods, one call each
Callers == 1 .. MaxCallers

NoCall == [op |-> "none", pc |-> "idle", worker |-> 0, awaited |-> {}]

\* nobody has called the service beyond what startServer did: the pool holds
\* every worker made so far
PoolUntouched ==
    /\ calls = [c \in Callers |-> NoCall]
    /\ live = workerPool
    /\ terminating = {}
    /\ created = Cardinality(workerPool)

Init ==
    /\ workerPoolSize \in 0 .. MaxPool
    /\ workerPool = 1 .. workerPoolSize
    /\ isInitialized = TRUE
    /\ PoolUntouched
    /\ images \in ImageLists
    /\ pc = [t \in TaskIds |-> "notStarted"]
    /\ worker = [t \in TaskIds |-> 0]
    /\ outcome = [t \in TaskIds |-> Pending]
    /\ thrown = [t \in TaskIds |-> NoError]
    /\ batchPc = "idle"
    /\ chunks = <<>>
    /\ chunkIdx = 0
    /\ results = [id \in Ids |-> None]
    /\ setCount = [id \in Ids |-> 0]
    /\ scoreIn = None
    /\ scoreOut = None
    /\ fuzzyIn = None
    /\ fuzzyOut = None
    /\ densityIn = None
    /\ densityOut = None

Next ==
    \/ BatchStart
    \/ ChunkSettled
    \/ \E t \in TaskIds : DownloadDone(t)
    \/ \E t \in TaskIds : DimensionsDone(t)
    \/ \E t \in TaskIds : \E w \in Workers : PreprocessDone(t, w)
    \/ \E t \in TaskIds : PreprocessFails(t)
    \/ \E t \in TaskIds : RecognizeDone(t)

Spec == Init /\ [][Next]_vars

\* every pending continuation of the event loop is eventually run: a download,
\* an OCR call or an allSettled that can complete does complete
SpecFair == Spec /\ WF_vars(Next)

----------------------------------------------------------------------------
(* The server after startServer serving concurrent POST /api/detect-label
   requests, one detectLabel call each *)

SingleInit ==
    /\ workerPoolSize \in 0 .. MaxPool
    /\ workerPool = 1 .. workerPoolSize
    /\ isInitialized = TRUE
    /\ PoolUntouched
    /\ images = <<>>
    /\ pc = [t \in TaskIds |-> "notStarted"]
    /\ worker = [t \in TaskIds |-> 0]
    /\ outcome = [t \in TaskIds |-> Pending]
    /\ thrown = [t \in TaskIds |-> NoError]
    /\ batchPc = "idle"
    /\ chunks = <<>>
    /\ chunkIdx = 0
    /\ results = [id \in Ids |-> None]
    /\ setCount = [id \in Ids |-> 0]
    /\ scoreIn = None
    /\ scoreOut = None
    /\ fuzzyIn = None
    /\ fuzzyOut = None
    /\ densityIn = None
    /\ densityOut = None

SingleNext ==
    \/ \E t \in TaskIds : SingleRequest(t)
    \/ \E t \in TaskIds : DownloadDone(t)
    \/ \E t \in TaskIds : DimensionsDone(t)
    \/ \E t \in TaskIds : \E w \in Workers : PreprocessDone(t, w)
    \/ \E t \in TaskIds : PreprocessFails(t)
    \/ \E t \in TaskIds : RecognizeDone(t)

SpecSingle == SingleInit /\ [][SingleNext]_vars

----------------------------------------------------------------------------
(* One call of calculateLabelScore on every input of ScoreInputs *)

ScoreInit ==
    /\ workerPoolSize = 0
    /\ workerPool = {}
    /\ isInitialized = FALSE
    /\ PoolUntouched
    /\ images = <<>>
    /\ pc = [t \in TaskIds |-> "notStarted"]
    /\ worker = [t \in TaskIds |-> 0]
    /\ outcome = [t \in TaskIds |-> Pending]
    /\ thrown = [t \in TaskIds |-> NoError]
    /\ batchPc = "idle"
    /\ chunks = <<>>
    /\ chunkIdx = 0
    /\ results = [id \in Ids |-> None]
    /\ setCount = [id \in Ids |-> 0]
    /\ scoreIn \in ScoreInputs
    /\ scoreOut = None
    /\ fuzzyIn = None
    /\ fuzzyOut = None
    /\ densityIn = None
    /\ densityOut = None

ScoreCall ==
    /\ scoreOut = None
    /\ scoreIn # None
    /\ scoreOut' = calculateLabelScore(scoreIn)
    /\ UNCHANGED <<poolVars, workerPoolSize, workerPool, isInitialized, images, pc, worker,
                   outcome, batchPc, chunks, chunkIdx, results, setCount, thrown,
                   scoreIn, fuzzyIn, fuzzyOut, densityIn, densityOut>>

ScoreNext == ScoreCall

SpecScore == ScoreInit /\ [][ScoreNext]_vars

----------------------------------------------------------------------------
(* One call of fuzzySearch(text, keyword, threshold) and one of
   similarity(text, keyword) on every input of FuzzyInputs *)

FuzzyInit ==
    /\ workerPoolSize = 0
    /\ workerPool = {}
    /\ isInitialized = FALSE
    /\ PoolUntouched
    /\ images = <<>>
    /\ pc = [t \in TaskIds |-> "notStarted"]
    /\ worker = [t \in TaskIds |-> 0]
    /\ outcome = [t \in TaskIds |-> Pending]
    /\ thrown = [t \in TaskIds |-> NoError]
    /\ batchPc = "idle"
    /\ chunks = <<>>
    /\ chunkIdx = 0
    /\ results = [id \in Ids |-> None]
    /\ setCount = [id \in Ids |-> 0]
    /\ scoreIn = None
    /\ scoreOut = None
    /\ fuzzyIn \in FuzzyInputs
    /\ fuzzyOut = None
    /\ densityIn = None
    /\ densityOut = None

FuzzyCall ==
    /\ fuzzyOut = None
    /\ fuzzyIn # None
    /\ fuzzyOut' =
          [found      |-> fuzzySearch(fuzzyIn.text, fuzzyIn.keyword,
                                      fuzzyIn.threshold),
           similarity |-> similarity(fuzzyIn.text, fuzzyIn.keyword)]
    /\ UNCHANGED <<poolVars, workerPoolSize, workerPool, isInitialized, images, pc, worker,
                   outcome, batchPc, chunks, chunkIdx, results, setCount, thrown,
                   scoreIn, scoreOut, fuzzyIn, densityIn, densityOut>>

FuzzyNext == FuzzyCall

SpecFuzzy == FuzzyInit /\ [][FuzzyNext]_vars

----------------------------------------------------------------------------
(* One analysis (steps 6 to 9 of detectLabel) of every input of
   DensityInputs *)

DensityInit ==
    /\ workerPoolSize = 0
    /\ workerPool = {}
    /\ isInitialized = FALSE
    /\ PoolUntouched
    /\ images = <<>>
    /\ pc = [t \in TaskIds |-> "notStarted"]
    /\ worker = [t \in TaskIds |-> 0]
    /\ outcome = [t \in TaskIds |-> Pending]
    /\ thrown = [t \in TaskIds |-> NoError]
    /\ batchPc = "idle"
    /\ chunks = <<>>
    /\ chunkIdx = 0
    /\ results = [id \in Ids |-> None]
    /\ setCount = [id \in Ids |-> 0]
    /\ scoreIn = None
    /\ scoreOut = None
    /\ fuzzyIn = None
    /\ fuzzyOut = None
    /\ densityIn \in DensityInputs
    /\ densityOut = None

DensityCall ==
    /\ densityOut = None
    /\ densityIn # None
    /\ densityOut' = AnalyzeOCRResult(densityIn.ocrResult, densityIn.width,
                                      densityIn.height)
    /\ UNCHANGED <<poolVars, workerPoolSize, workerPool, isInitialized, images, pc, worker,
                   outcome, batchPc, chunks, chunkIdx, results, setCount, thrown,
                   scoreIn, scoreOut, fuzzyIn, fuzzyOut, densityIn>>

DensityNext == DensityCall

SpecDensity == DensityInit /\ [][DensityNext]_vars

----------------------------------------------------------------------------
(* The worker pool of TesseractService under concurrent calls of
   initialize, recognizeText and terminate. A step is what one call runs
   between two awaits. *)

Call(op, at, w, awaited) ==
    [op |-> op, pc |-> at, worker |-> w, awaited |-> awaited]

\* getWorker from its line 826 on, with the pool as it is at that moment:
\* throws on an empty pool, else hands out any worker of the pool, on which
\* recognizeText then calls recognize
PickWorker(op, pool) ==
    IF pool = {} THEN {Call(op, "threw", 0, {})}
    ELSE {Call(op, "recognizing", w, {}) : w \in pool}

\* initialize() up to `await Promise.all(workerPromises)`: returns at once
\* when the flag is set, else starts one createWorker per pool slot
InitializeCall(c) ==
    /\ calls[c].pc = "idle"
    /\ calls' = [calls EXCEPT ![c] =
                    IF isInitialized THEN Call("initialize", "done", 0, {})
                    ELSE Call("initialize", "creating", 0, {})]
    /\ UNCHANGED <<live, terminating, created>>
    /\ UNCHANGED <<workerPoolSize, workerPool, isInitialized, images, pc, worker,
                   outcome, batchPc, chunks, chunkIdx, results, setCount, thrown,
                   scoreIn, scoreOut, fuzzyIn, fuzzyOut, densityIn, densityOut>>

\* recognizeText() up to its first pending await: getWorker either awaits
\* initialize() or picks a worker
RecognizeCall(c) ==
    /\ calls[c].pc = "idle"
    /\ IF ~isInitialized
       THEN calls' = [calls EXCEPT ![c] = Call("recognizeText", "creating", 0, {})]
       ELSE \E call \in PickWorker("recognizeText", workerPool) :
                calls' = [calls EXCEPT ![c] = call]
    /\ UNCHANGED <<live, terminating, created>>
    /\ UNCHANGED <<workerPoolSize, workerPool, isInitialized, images, pc, worker,
                   outcome, batchPc, chunks, chunkIdx, results, setCount, thrown,
                   scoreIn, scoreOut, fuzzyIn, fuzzyOut, densityIn, densityOut>>

\* the createWorker promises of one initialize() have all resolved: the
\* continuation assigns the pool and sets the flag; a getWorker that awaited
\* it goes on to pick a worker
WorkersCreated(c) ==
    /\ calls[c].pc = "creating"
    /\ LET workers == (created + 1) .. (created + workerPoolSize)
       IN  /\ live' = live \cup workers
           /\ created' = created + workerPoolSize
           /\ workerPool' = workers
           /\ isInitialized' = TRUE
           /\ IF calls[c].op = "initialize"
              THEN calls' = [calls EXCEPT ![c] = Call("initialize", "done", 0, {})]
              ELSE \E call \in PickWorker("recognizeText", workers) :
                       calls' = [calls EXCEPT ![c] = call]
    /\ UNCHANGED <<terminating, workerPoolSize, images, pc, worker,
                   outcome, batchPc, chunks, chunkIdx, results, setCount, thrown,
                   scoreIn, scoreOut, fuzzyIn, fuzzyOut, densityIn, densityOut>>

\* worker.recognize settles and recognizeText returns or throws
RecognizeSettled(c) ==
    /\ calls[c].pc = "recognizing"
    /\ calls' = [calls EXCEPT ![c].pc = "done"]
    /\ UNCHANGED <<live, terminating, created>>
    /\ UNCHANGED <<workerPoolSize, workerPool, isInitialized, images, pc, worker,
                   outcome, batchPc, chunks, chunkIdx, results, setCount, thrown,
                   scoreIn, scoreOut, fuzzyIn, fuzzyOut, densityIn, densityOut>>

\* terminate() up to its await: worker.terminate() is called on every worker
\* the pool holds now
TerminateCall(c) ==
    /\ calls[c].pc = "idle"
    /\ calls' = [calls EXCEPT ![c] = Call("terminate", "terminating", 0, workerPool)]
    /\ terminating' = terminating \cup workerPool
    /\ UNCHANGED <<live, created>>
    /\ UNCHANGED <<workerPoolSize, workerPool, isInitialized, images, pc, worker,
                   outcome, batchPc, chunks, chunkIdx, results, setCount, thrown,
                   scoreIn, scoreOut, fuzzyIn, fuzzyOut, densityIn, densityOut>>

\* the terminate() promises have all resolved: the continuation empties the
\* pool, whatever it holds by now, and clears the flag
WorkersTerminated(c) ==
    /\ calls[c].pc = "terminating"
    /\ live' = live \ calls[c].awaited
    /\ terminating' = terminating \ calls[c].awaited
    /\ workerPool' = {}
    /\ isInitialized' = FALSE
    /\ calls' = [calls EXCEPT ![c] = Call("terminate", "done", 0, {})]
    /\ UNCHANGED <<created, workerPoolSize, images, pc, worker,
                   outcome, batchPc, chunks, chunkIdx, results, setCount, thrown,
                   scoreIn, scoreOut, fuzzyIn, fuzzyOut, densityIn, densityOut>>

\* the class as loaded: empty pool, flag unset (lines 784-785)
PoolInit ==
    /\ workerPoolSize \in 0 .. MaxPool
    /\ workerPool = {}
    /\ isInitialized = FALSE
    /\ PoolUntouched
    /\ images = <<>>
    /\ pc = [t \in TaskIds |-> "notStarted"]
    /\ worker = [t \in TaskIds |-> 0]
    /\ outcome = [t \in TaskIds |-> Pending]
    /\ thrown = [t \in TaskIds |-> NoError]
    /\ batchPc = "idle"
    /\ chunks = <<>>
    /\ chunkIdx = 0
    /\ results = [id \in Ids |-> None]
    /\ setCount = [id \in Ids |-> 0]
    /\ scoreIn = None
    /\ scoreOut = None
    /\ fuzzyIn = None
    /\ fuzzyOut = None
    /\ densityIn = None
    /\ densityOut = None

PoolNext ==
    \/ \E c \in Callers : InitializeCall(c)
    \/ \E c \in Callers : RecognizeCall(c)
    \/ \E c \in Callers : WorkersCreated(c)
    \/ \E c \in Callers : RecognizeSettled(c)
    \/ \E c \in Callers : TerminateCall(c)
    \/ \E c \in Callers : WorkersTerminated(c)

SpecPool == PoolInit /\ [][PoolNext]_vars

----------------------------------------------------------------------------
(* Notions the claims are stated with *)

BatchTasks == 1 .. Len(images)

DistinctIds == \A i, j \in BatchTasks : images[i] = images[j] => i = j

Started(t) == pc[t] # "notStarted"

InFlight(t) == Started(t) /\ ~Settled(t)

Threw(t) == thrown[t] # NoError

\* the position of image i's chunk when the list is cut every k images
ChunkOfPosition(i, k) == (i - 1) \div k

\* image i is the last one of the list that carries its id
LastWithId(i) == \A j \in BatchTasks : j > i => images[j] # images[i]

Carriers(id) == {i \in BatchTasks : images[i] = id}

HasEntry(id) == results[id] # None

IsErrorEntry(e) ==
    /\ e # None
    /\ e.isProductLabel = FALSE
    /\ Len(e.reasoning) > 0
    /\ e.reasoning[1] = "Error: "

IsFailureEntry(e) ==
    /\ e # None
    /\ e.isProductLabel = FALSE
    /\ e.confidence = 0
    /\ Len(e.reasoning) > 1
    /\ e.reasoning[1] = "Error: "
    /\ e.metrics = [textCoverage |-> 0, textBlockCount |-> 0, wordCount |-> 0,
                    hasBarcode |-> FALSE, hasQRCode |-> FALSE,
                    averageTextConfidence |-> 0]
    /\ e.processingTimeMs = 0

----------------------------------------------------------------------------
(* C1: when detectLabelsInBatch has returned for N images with pairwise
   distinct ids and a positive pool size, P of whose pipelines threw, the
   map holds exactly N entries, exactly P of them error entries
   (isProductLabel = false, reasoning "Error: ..."), and every other image's
   entry is the value its detectLabel call resolved with. *)
C1_BatchResultMap ==
    (batchPc = "done" /\ DistinctIds /\ workerPoolSize > 0) =>
        /\ Cardinality({id \in Ids : HasEntry(id)}) = Len(images)
        /\ Cardinality({id \in Ids : IsErrorEntry(results[id])})
              = Cardinality({i \in BatchTasks : Threw(i)})
        /\ \A i \in BatchTasks :
              ~Threw(i) => /\ outcome[i].status = "fulfilled"
                           /\ results[images[i]] = outcome[i].value

C1_Witness ==
    /\ batchPc = "done"
    /\ DistinctIds
    /\ Len(images) = 3
    /\ Cardinality({i \in BatchTasks : Threw(i)}) = 1
    /\ Cardinality({id \in Ids : IsErrorEntry(results[id])}) = 1

(* C2: the batch call never rejects, and once it has returned, the entry of
   every image (the last one carrying its id) whose pipeline threw is the
   zero failure record with reasoning "Error: <the error>", while the entry
   of every image that did not throw is the value it resolved with,
   whatever the other images of its chunk or of other chunks did. *)
C2_FailureIsolated ==
    /\ batchPc # "rejected"
    /\ batchPc = "done" =>
          \A i \in BatchTasks :
             LastWithId(i) =>
                IF Threw(i)
                THEN /\ IsFailureEntry(results[images[i]])
                     /\ results[images[i]].reasoning[2] = thrown[i]
                ELSE results[images[i]] = outcome[i].value

C2_Witness ==
    /\ batchPc = "done"
    /\ Len(images) = 3
    /\ DistinctIds
    /\ workerPoolSize = 2
    /\ thrown[1] = "debugWrite"
    /\ ~Threw(2)
    /\ ~Threw(3)
    /\ results[images[2]] = outcome[2].value
    /\ results[images[3]] = outcome[3].value
    /\ IsFailureEntry(results[images[1]])

(* C3: an image of a later chunk has been started only if every image of
   every earlier chunk has settled, and images are started in input order. *)
C3_ChunksSequential ==
    workerPoolSize > 0 =>
        \A i, j \in BatchTasks :
           /\ (ChunkOfPosition(i, workerPoolSize) < ChunkOfPosition(j, workerPoolSize)
                 /\ Started(j)) => Settled(i)
           /\ (i < j /\ Started(j)) => Started(i)

C3_Witness ==
    /\ workerPoolSize = 2
    /\ Len(images) = 3
    /\ InFlight(3)
    /\ outcome[1].status = "rejected"
    /\ outcome[2].status = "fulfilled"

(* C4: the number of pipelines of the batch that have started and not yet
   settled never exceeds config.tesseract.workerPoolSize. *)
C4_BoundedConcurrency ==
    Cardinality({i \in BatchTasks : InFlight(i)}) <= workerPoolSize

C4_Witness ==
    /\ workerPoolSize = 2
    /\ Cardinality({i \in BatchTasks : InFlight(i)}) = 2
    /\ Len(images) > 2

(* C5 as claimed: no key of the result map is ever set more than once, for
   any image list, lists with a repeated _id included. *)
C5_NeverOverwritten == \A id \in Ids : setCount[id] <= 1

(* C5 as amended: every image of the list is processed exactly once, so a
   key is set once per image carrying it: never more than once when the ids
   are pairwise distinct, and once per carrier (the later write replacing
   the earlier) when an id repeats. *)
C5_SetOncePerImage ==
    /\ \A id \in Ids : setCount[id] <= Cardinality(Carriers(id))
    /\ DistinctIds => \A id \in Ids : setCount[id] <= 1
    /\ batchPc = "done" =>
          \A id \in Ids : setCount[id] = Cardinality(Carriers(id))

C5_Witness ==
    /\ batchPc = "done"
    /\ Len(images) = 3
    /\ images[1] = images[3]
    /\ setCount[images[1]] = 2
    /\ results[images[1]] = outcome[3].value
    /\ outcome[1].status = "rejected"

(* C6: a detectLabel call whose pipeline threw has rejected with that same
   error and carries no result; a call is fulfilled only after every step
   succeeded (it reached the return) and nothing was thrown. *)
C6_NeverSwallows ==
    \A t \in TaskIds :
       /\ Threw(t) => /\ outcome[t].status = "rejected"
                      /\ outcome[t].reason = thrown[t]
                      /\ outcome[t].value = None
       /\ outcome[t].status = "fulfilled" => pc[t] = "returned" /\ ~Threw(t)
       /\ outcome[t].status = "rejected" => Threw(t)

C6_Witness ==
    \E t \in TaskIds :
       /\ thrown[t] = "No hay workers disponibles en el pool"
       /\ outcome[t].status = "rejected"
       /\ outcome[t].reason = "No hay workers disponibles en el pool"

(* C7: getWorker reserves nothing: a call about to ask for a worker can be
   handed any worker of the pool, those with a recognition in flight
   included. *)
C7_WorkerNotReserved ==
    \A t \in TaskIds :
       (pc[t] = "preprocess" /\ isInitialized) =>
           \A w \in workerPool : ENABLED PreprocessDone(t, w)

C7_Witness ==
    \E t, u \in TaskIds :
       /\ t # u
       /\ pc[t] = "recognize"
       /\ pc[u] = "recognize"
       /\ worker[t] = worker[u]

(* C8: isLabel is true exactly when the score is at least 45 points,
   confidence is min(score / 100, 1), and so isLabel holds exactly when
   confidence is at least 0.45 (scores in half points, confidence in
   1/200). *)
C8_ThresholdAndConfidence ==
    scoreOut # None =>
        /\ scoreOut.result.isLabel <=> scoreOut.score >= 90
        /\ scoreOut.result.confidence
              = (IF scoreOut.score <= 200 THEN scoreOut.score ELSE 200)
        /\ scoreOut.result.isLabel <=> scoreOut.result.confidence >= 90

C8_Witness ==
    /\ scoreOut # None
    /\ scoreOut.score = 90
    /\ scoreOut.result.isLabel
    /\ scoreOut.result.confidence = 90

(* C9 as claimed: the total score never exceeds 100 points. *)
C9_ScoreAtMost100 ==
    scoreOut # None => scoreOut.score <= 200

(* C10 as claimed: more than 100 characters add 15 points, 50 to 100
   characters (both included) add 8, fewer add nothing. *)
C10_VolumeInclusive50 ==
    scoreOut # None =>
        scoreOut.points.volume =
            (IF scoreIn.textLength > 100 THEN 30
             ELSE IF scoreIn.textLength >= 50 THEN 16
             ELSE 0)

(* C10 as amended: a trimmed text length above 100 adds 15 points, one from
   51 to 100 adds 8, and one of 50 or less adds nothing; the criterion's
   reason is recorded exactly when points were added. *)
C10_VolumeAbove50 ==
    scoreOut # None =>
        /\ scoreOut.points.volume =
              (IF scoreIn.textLength > 100 THEN 30
               ELSE IF scoreIn.textLength >= 51 THEN 16
               ELSE 0)
        /\ ("volume" \in Range(scoreOut.result.reasoning))
              <=> scoreIn.textLength >= 51

C10_Witness ==
    /\ scoreOut # None
    /\ scoreIn.textLength = 50
    /\ scoreOut.points.volume = 0
    /\ "volume" \notin Range(scoreOut.result.reasoning)

(* C11: with ratio = textCoveragePercentage / 100 the coverage criterion
   adds nothing when ratio <= 0.1 and min(20, (ratio / 0.4) * 20) points
   when ratio > 0.1: exactly 20 points at ratio 0.4, and still exactly 20 at
   ratio 0.8 and at any larger ratio, a coverage above 100% included
   (points in half points: (ratio / 0.4) * 20 points is pct half points). *)
C11_CoverageCriterion ==
    scoreOut # None =>
        LET pct      == scoreIn.textCoveragePercentage
            coverage == scoreOut.points.coverage
        IN  /\ pct <= 10 => coverage = 0
            /\ pct > 10  => coverage = (IF pct < 40 THEN pct ELSE 40)
            /\ pct = 40  => coverage = 40
            /\ pct >= 80 => coverage = 40

C11_Witness ==
    /\ scoreOut # None
    /\ scoreIn.textCoveragePercentage > 100
    /\ scoreOut.points.coverage = 40

(* C12: of two inputs that differ only in wordsDetected, the one with the
   larger wordsDetected has a total score at least as large as the other's;
   the word criterion adds 0 below 5 words, 4 points from 5 to 9, 8 from 10
   to 19, 12 from 20 to 29 and 15 from 30 on. *)
C12_MonotoneInWords ==
    scoreOut # None =>
        /\ scoreOut.points.words =
              (IF scoreIn.wordsDetected <= 4 THEN 0
               ELSE IF scoreIn.wordsDetected <= 9 THEN 8
               ELSE IF scoreIn.wordsDetected <= 19 THEN 16
               ELSE IF scoreIn.wordsDetected <= 29 THEN 24
               ELSE 30)
        /\ \A w \in WordCounts :
              LET other == [scoreIn EXCEPT !.wordsDetected = w]
              IN  /\ w >= scoreIn.wordsDetected =>
                        calculateLabelScore(other).score >= scoreOut.score
                  /\ w <= scoreIn.wordsDetected =>
                        calculateLabelScore(other).score <= scoreOut.score

C12_Witness ==
    /\ scoreOut # None
    /\ scoreIn.wordsDetected = 29
    /\ scoreOut.points.words = 24
    /\ calculateLabelScore([scoreIn EXCEPT !.wordsDetected = 30]).score
          = scoreOut.score + 6

\* the criteria of `in` that fired, as the claim lists them
FiredCriteria(in) ==
    LET fires(c) ==
          CASE c = "volume"       -> in.textLength > 50
            [] c = "coverage"     -> in.textCoveragePercentage > 10
            [] c = "blocks"       -> in.textBlockCount >= 2
            [] c = "words"        -> in.wordsDetected >= 5
            [] c = "nutrition"    -> in.hasNutritionalInfo
            [] c = "ingredients"  -> in.hasIngredients
            [] c = "storage"      -> in.hasStorageInfo
            [] c = "manufacturer" -> in.hasManufacturerInfo
            [] c = "codes"        -> in.hasQRCode \/ in.hasBarcode
    IN  SelectSeq(<<"volume", "coverage", "blocks", "words", "nutrition",
                    "ingredients", "storage", "manufacturer", "codes">>, fires)

\* the entries of `list` with "; " between neighbours
SemicolonJoined(list) ==
    [i \in 1 .. (2 * Len(list) - 1) |->
        IF i % 2 = 1 THEN list[(i + 1) \div 2] ELSE "; "]

(* C13: reasoning is the "; "-joined list of one justification per
   criterion that fired, in the order text volume, coverage, block count,
   word count, nutrition, ingredients, storage, manufacturer, barcode/QR;
   it is the fixed sentinel exactly when no criterion fired, which is
   exactly when the score is 0. *)
C13_ReasoningListsFired ==
    scoreOut # None =>
        LET fired    == FiredCriteria(scoreIn)
            sentinel == <<"No se detectaron caracteristicas de etiqueta">>
        IN  /\ fired # <<>> =>
                  scoreOut.result.reasoning = SemicolonJoined(fired)
            /\ (scoreOut.result.reasoning = sentinel) <=> (fired = <<>>)
            /\ (fired = <<>>) <=> (scoreOut.score = 0)

C13_Witness ==
    /\ scoreOut # None
    /\ scoreOut.result.reasoning
          = <<"volume", "; ", "words", "; ", "nutrition", "; ", "codes">>
    /\ scoreOut.score > 0

\* the same letter, whatever the case
SameLetter(c, d) ==
    \/ c = d
    \/ {c, d} = {"a", "A"}
    \/ {c, d} = {"b", "B"}

\* `part` occurs in `text` verbatim, case-insensitively
OccursIn(part, text) ==
    \E i \in 1 .. (Len(text) + 1) :
        /\ i + Len(part) - 1 <= Len(text)
        /\ \A h \in 1 .. Len(part) : SameLetter(text[i + h - 1], part[h])

(* C15: whenever the text contains the keyword verbatim
   (case-insensitively), fuzzySearch(text, keyword, threshold) is true,
   for every threshold from 0 to 1. *)
C15_VerbatimAlwaysFound ==
    (fuzzyOut # None /\ OccursIn(fuzzyIn.keyword, fuzzyIn.text))
        => fuzzyOut.found

C15_Witness ==
    /\ fuzzyOut # None
    /\ fuzzyIn.text = <<"b", "a", "b">>
    /\ fuzzyIn.keyword = <<"A", "b">>
    /\ fuzzyIn.threshold = 100
    /\ fuzzyOut.found

\* the classic edit distance of a and b, letters compared whatever the case:
\* the least number of insertions, deletions and substitutions
EditDistance(a, b) ==
    LET L[i \in 0 .. Len(a), j \in 0 .. Len(b)] ==
          IF i = 0 THEN j
          ELSE IF j = 0 THEN i
          ELSE LET cost == IF SameLetter(a[i], b[j]) THEN 0 ELSE 1
                   del  == L[i - 1, j] + 1
                   ins  == L[i, j - 1] + 1
                   sub  == L[i - 1, j - 1] + cost
               IN  IF del <= ins /\ del <= sub THEN del
                   ELSE IF ins <= sub THEN ins
                   ELSE sub
    IN  L[Len(a), Len(b)]

LongerLen(a, b) == IF Len(a) >= Len(b) THEN Len(a) ELSE Len(b)

(* C16: similarity(a, b) = 1 - L(a, b) / max(len(a), len(b)), L the classic
   edit distance of the lower-cased strings, and the similarity of two empty
   strings is 1; so similarity(s, s) = 1 (a similarity is the fraction
   num / den). *)
C16_SimilarityIsEditRatio ==
    fuzzyOut # None =>
        LET a   == fuzzyIn.text
            b   == fuzzyIn.keyword
            m   == LongerLen(a, b)
            sim == fuzzyOut.similarity
        IN  /\ sim.den > 0
            /\ m = 0 => sim.num = sim.den
            /\ m > 0 => sim.num * m = (m - EditDistance(a, b)) * sim.den
            /\ a = b => sim.num = sim.den

C16_Witness ==
    /\ fuzzyOut # None
    /\ fuzzyIn.text = <<"A", "b">>
    /\ fuzzyIn.keyword = <<"a", "a", "b">>
    /\ fuzzyOut.similarity = [num |-> 2, den |-> 3]

\* the pieces str.split(/\s+/) cuts str into, as the intervals they occupy:
\* the maximal stretches without whitespace, and an empty piece before a
\* leading and after a trailing whitespace (the empty string is one empty
\* piece)
Pieces(str) ==
    LET Blank(i) == str[i] \in {" ", "\n"}
    IN  {iv \in (1 .. Len(str) + 1) \X (0 .. Len(str)) :
            /\ iv[1] <= iv[2] + 1
            /\ \A h \in iv[1] .. iv[2] : ~Blank(h)
            /\ iv[1] > 1 => Blank(iv[1] - 1)
            /\ iv[2] < Len(str) => Blank(iv[2] + 1)
            /\ iv[1] = iv[2] + 1 => (iv[1] = 1 \/ iv[2] = Len(str))}

Piece(str, iv) == SubSeq(str, iv[1], iv[2])

(* C17: fuzzySearch(text, keyword, threshold) is true exactly when (1) the
   keyword is a case-insensitive substring of the text, or (2) some
   whitespace-delimited token w of the text with len(w) >= len(keyword) - 2
   has similarity(w, keyword) >= threshold, or (3) the number of
   whitespace-separated keyword parts longer than 3 that are substrings of
   the text is at least ceil(0.6 * number of keyword parts).  Tokens and
   parts are the pieces split(/\s+/) yields. *)
C17_FuzzySearchStrategies ==
    fuzzyOut # None =>
        LET text    == fuzzyIn.text
            keyword == fuzzyIn.keyword
            Similar(w) ==
                LET m == LongerLen(w, keyword)
                IN  IF m = 0 THEN 100 >= fuzzyIn.threshold
                    ELSE (m - EditDistance(w, keyword)) * 100
                            >= fuzzyIn.threshold * m
            parts   == Pieces(keyword)
            matched == {iv \in parts :
                           /\ iv[2] - iv[1] + 1 > 3
                           /\ OccursIn(Piece(keyword, iv), text)}
        IN  fuzzyOut.found <=>
              \/ OccursIn(keyword, text)
              \/ \E iv \in Pieces(text) :
                    /\ iv[2] - iv[1] + 1 >= Len(keyword) - 2
                    /\ Similar(Piece(text, iv))
              \/ 10 * Cardinality(matched) >= 6 * Cardinality(parts)

C17_Witness ==
    /\ fuzzyOut # None
    /\ fuzzyIn.text = <<"b", "b", "b", "b", " ", "a", "a", "a", "a">>
    /\ fuzzyIn.keyword = <<"a", "a", "a", "a", " ", "b", "b", "b", "b">>
    /\ fuzzyIn.threshold = 100
    /\ fuzzyOut.found

\* the OCR result analysed has no words and an empty text
EmptyOCRResult ==
    /\ densityIn.ocrResult.words = <<>>
    /\ densityIn.ocrResult.text = <<>>

(* C14: for every OCR result with empty words and empty text, whatever its
   confidence and the image dimensions, analyzeTextDensity returns
   totalTextArea, textCoveragePercentage, textBlockCount,
   averageWordConfidence and wordsDetected all 0, every signal detector is
   false, and the resulting score is 0 with isProductLabel = false. *)
C14_EmptyOCRScoresZero ==
    (densityOut # None /\ EmptyOCRResult) =>
        /\ densityOut.textDensity.totalTextArea = 0
        /\ densityOut.textDensity.textCoveragePercentage = 0
        /\ densityOut.textDensity.textBlockCount = 0
        /\ densityOut.textDensity.averageWordConfidence = 0
        /\ densityOut.textDensity.wordsDetected = 0
        /\ ~densityOut.barcodeQR.hasQRCode
        /\ ~densityOut.barcodeQR.hasBarcode
        /\ ~densityOut.signals.hasNutritionalInfo
        /\ ~densityOut.signals.hasIngredients
        /\ ~densityOut.signals.hasStorageInfo
        /\ ~densityOut.signals.hasManufacturerInfo
        /\ densityOut.score = 0
        /\ ~densityOut.detectionResult.isLabel

C14_Witness ==
    /\ densityOut # None
    /\ EmptyOCRResult
    /\ densityIn.ocrResult.confidence > 0
    /\ densityOut.textDensity.imageArea = 5000
    /\ densityOut.textDensity.averageWordConfidence = 0
    /\ densityOut.detectionResult.reasoning
          = <<"No se detectaron caracteristicas de etiqueta">>

\* the analysis took the plain-text fallback branch
PlainTextFallback ==
    /\ densityIn.ocrResult.words = <<>>
    /\ \E i \in 1 .. Len(densityIn.ocrResult.text) :
          densityIn.ocrResult.text[i] \notin {" ", "\n"}

(* C19 as claimed: in the plain-text fallback branch (no words, a text that
   is not empty) the estimated text area is capped at the image area: the
   totalTextArea returned never exceeds imageArea. *)
C19_FallbackAreaCapped ==
    (densityOut # None /\ PlainTextFallback) =>
        densityOut.textDensity.totalTextArea
            <= densityOut.textDensity.imageArea

(* C20 as claimed: every analysis returned for a positive image area has
   textCoveragePercentage = totalTextArea / imageArea * 100, in the
   word-based, the plain-text fallback and the empty branch alike. *)
C20_CoverageIsAreaRatio ==
    (densityOut # None /\ densityOut.textDensity.imageArea > 0) =>
        densityOut.textDensity.textCoveragePercentage
              * densityOut.textDensity.imageArea
            = densityOut.textDensity.totalTextArea * 100

\* the analysis took the word-based branch
WordBased == Len(densityIn.ocrResult.words) > 0

\* the grid cell the centre of a word falls into, cells of 200 by 200
CellOfWord(word) ==
    <<((word.bbox.x0 + word.bbox.x1) \div 2) \div 200,
      ((word.bbox.y0 + word.bbox.y1) \div 2) \div 200>>

(* C21 as claimed: in the word-based branch textBlockCount is the number of
   distinct occupied cells of a fixed 5x5 grid, so for every non-empty list
   of words with non-negative boxes 1 <= textBlockCount <= min(25, number
   of words), whatever the image dimensions. *)
C21_BlocksWithinGrid ==
    (densityOut # None /\ WordBased) =>
        LET words  == densityIn.ocrResult.words
            blocks == densityOut.textDensity.textBlockCount
        IN  /\ \A i \in 1 .. Len(words) :
                  CellOfWord(words[i]) \in (0 .. 4) \X (0 .. 4)
            /\ blocks = Cardinality({CellOfWord(words[i]) : i \in 1 .. Len(words)})
            /\ 1 <= blocks
            /\ blocks <= 25
            /\ blocks <= Len(words)

\* the text holds at least 8 digits in a row
HasDigitRun(text) ==
    \E i, j \in 1 .. Len(text) :
        /\ j - i + 1 >= 8
        /\ \A h \in i .. j :
              text[h] \in {"0", "1", "2", "3", "4", "5", "6", "7", "8", "9"}

(* C22: detectBarcodeQR sets hasQRCode exactly when a QR keyword
   fuzzy-matches, hasBarcode exactly when a barcode keyword fuzzy-matches or
   the text holds a run of at least 8 digits, and confidence to 0.8 if a
   keyword of either set matched, else 0.6 if a digit run matched, else 0.3;
   so confidence is 0.3 exactly when hasBarcode and hasQRCode are both
   false (confidence in tenths, thresholds in hundredths). *)
C22_BarcodeQRAnalysis ==
    densityOut # None =>
        LET text     == densityIn.ocrResult.text
            qr       == \E k \in 1 .. Len(qrPatterns) :
                           fuzzySearch(text, qrPatterns[k], 70)
            barcode  == \E k \in 1 .. Len(barcodePatterns) :
                           fuzzySearch(text, barcodePatterns[k], 70)
            analysis == densityOut.barcodeQR
        IN  /\ analysis.hasQRCode <=> qr
            /\ analysis.hasBarcode <=> (barcode \/ HasDigitRun(text))
            /\ analysis.confidence =
                  (IF qr \/ barcode THEN 8
                   ELSE IF HasDigitRun(text) THEN 6
                   ELSE 3)
            /\ (analysis.confidence = 3)
                  <=> (~analysis.hasBarcode /\ ~analysis.hasQRCode)

C22_Witness ==
    /\ densityOut # None
    /\ densityIn.ocrResult.text = <<"1", "2", "3", "4", "5", "6", "7", "8">>
    /\ densityOut.barcodeQR
          = [hasQRCode |-> FALSE, hasBarcode |-> TRUE, confidence |-> 6]

\* p points when the criterion fired, none otherwise, in half points
TablePoints(fired, p) == IF fired THEN 2 * p ELSE 0

(* C23: the detector criteria are additive and non-exclusive: nutrition
   adds 20 points, ingredients 10, storage 5, manufacturer 5, and barcode or
   QR adds 5 exactly once even when both are present; each contribution is
   independent of which other criteria fired, so the total is the sum of the
   table points of the criteria that fired. *)
C23_DetectorsAdditive ==
    scoreOut # None =>
        /\ scoreOut.points.nutrition
              = TablePoints(scoreIn.hasNutritionalInfo, 20)
        /\ scoreOut.points.ingredients
              = TablePoints(scoreIn.hasIngredients, 10)
        /\ scoreOut.points.storage = TablePoints(scoreIn.hasStorageInfo, 5)
        /\ scoreOut.points.manufacturer
              = TablePoints(scoreIn.hasManufacturerInfo, 5)
        /\ scoreOut.points.codes
              = TablePoints(scoreIn.hasQRCode \/ scoreIn.hasBarcode, 5)
        /\ scoreOut.score
              = scoreOut.points.volume + scoreOut.points.coverage
                + scoreOut.points.blocks + scoreOut.points.words
                + TablePoints(scoreIn.hasNutritionalInfo, 20)
                + TablePoints(scoreIn.hasIngredients, 10)
                + TablePoints(scoreIn.hasStorageInfo, 5)
                + TablePoints(scoreIn.hasManufacturerInfo, 5)
                + TablePoints(scoreIn.hasQRCode \/ scoreIn.hasBarcode, 5)

C23_Witness ==
    /\ scoreOut # None
    /\ scoreIn.hasQRCode
    /\ scoreIn.hasBarcode
    /\ scoreIn.hasNutritionalInfo
    /\ ~scoreIn.hasIngredients
    /\ scoreIn.textLength = 1
    /\ scoreIn.textCoveragePercentage = 0
    /\ scoreIn.textBlockCount = 1
    /\ scoreIn.wordsDetected = 4
    /\ ~scoreIn.hasStorageInfo
    /\ ~scoreIn.hasManufacturerInfo
    /\ scoreOut.score = 50

\* the chunks laid end to end
RECURSIVE Flattened(_)
Flattened(seqs) ==
    IF seqs = <<>> THEN <<>> ELSE Head(seqs) \o Flattened(Tail(seqs))

\* detectLabelsInBatch has called chunkArray and the call has returned
Chunked == batchPc \in {"awaitChunk", "done"}

(* C27: for a positive integer k, chunkArray(array, k) is a partition of
   the array: laid end to end in order the chunks give back the array, every
   chunk is non-empty, every chunk but possibly the last has exactly k
   elements, the last has between 1 and k, and the empty array gives no
   chunks. *)
C27_ChunksPartition ==
    (Chunked /\ workerPoolSize > 0) =>
        /\ Flattened(chunks) = [i \in 1 .. Len(images) |-> i]
        /\ \A c \in 1 .. Len(chunks) :
              /\ Len(chunks[c]) >= 1
              /\ Len(chunks[c]) <= workerPoolSize
              /\ c < Len(chunks) => Len(chunks[c]) = workerPoolSize
        /\ Len(images) = 0 => chunks = <<>>

C27_Witness ==
    /\ Chunked
    /\ workerPoolSize = 2
    /\ Len(images) = 3
    /\ chunks = <<(<<1, 2>>), (<<3>>)>>

(* C24: detectLabelsInBatch terminates for every finite image list and
   every pool size value, 0 included: when every per-image pipeline
   eventually settles, the batch eventually resolves with its result map. *)
C24_BatchResolves == <>(batchPc = "done")

\* nobody has called terminate()
NoTerminateCall == \A c \in Callers : calls[c].op # "terminate"

(* C25: pool creation is single-shot under concurrency: for any
   interleaving of concurrent initialize() and recognizeText() calls
   issued while the pool is not yet initialized, the number of workers
   created and not terminated never exceeds the configured pool size. *)
C25_PoolCreatedOnce == NoTerminateCall => Cardinality(live) <= workerPoolSize

\* call c has just been handed a worker by getWorker
Handed(c) == calls[c].pc # "recognizing" /\ calls'[c].pc = "recognizing"

(* C26: for any interleaving of recognizeText() and terminate(), a worker
   returned by getWorker has not been terminated and terminate() is not in
   progress on it at the moment it is returned. *)
C26_ReturnedWorkerUsable ==
    [][\A c \in Callers :
          Handed(c) => /\ calls'[c].worker \in live'
                       /\ calls'[c].worker \notin terminating']_vars

====
